---- MODULE Spec2Model ----
(***************************************************************************)
(* A model of LabReportExtractor (src/extractor.py): the pipeline that     *)
(* regroups OCR text fragments into rows, filters noise rows, assigns the  *)
(* fragments of a row to the roles name / value / unit / range, and        *)
(* derives the out-of-range flag.                                          *)
(*                                                                         *)
(* A Python str is modelled as a sequence of one-character strings, so     *)
(* that the regular expressions, strip(), lower(), split() and the         *)
(* float <-> str conversions are computed character by character.  The     *)
(* two non-ASCII characters of the source are named: "endash" is U+2013,   *)
(* "sup3" is U+00B3 and "mu" is U+03BC.                                    *)
(***************************************************************************)
EXTENDS Integers, Sequences, FiniteSets, TLC

(***************************************************************************)
(* Characters and elementary string operations                             *)
(***************************************************************************)

Digits == {"0", "1", "2", "3", "4", "5", "6", "7", "8", "9"}

DigitSeq == <<"0", "1", "2", "3", "4", "5", "6", "7", "8", "9">>

\* The value of a decimal digit character.
DigitVal(c) == (CHOOSE k \in 1..10 : DigitSeq[k] = c) - 1

\* Characters matched by \s and removed by str.strip().
WhiteSpace == {" ", "\t", "\n"}

UpperChars == <<"A", "B", "C", "D", "E", "F", "G", "H", "I", "J", "K", "L", "M",
                "N", "O", "P", "Q", "R", "S", "T", "U", "V", "W", "X", "Y", "Z">>

LowerChars == <<"a", "b", "c", "d", "e", "f", "g", "h", "i", "j", "k", "l", "m",
                "n", "o", "p", "q", "r", "s", "t", "u", "v", "w", "x", "y", "z">>

LowerChar(c) ==
    IF \E k \in 1..26 : UpperChars[k] = c
    THEN LowerChars[CHOOSE k \in 1..26 : UpperChars[k] = c]
    ELSE c

UpperChar(c) ==
    IF \E k \in 1..26 : LowerChars[k] = c
    THEN UpperChars[CHOOSE k \in 1..26 : LowerChars[k] = c]
    ELSE c

\* str.lower() and str.upper()
lower(t) == [k \in 1..Len(t) |-> LowerChar(t[k])]

upper(t) == [k \in 1..Len(t) |-> UpperChar(t[k])]

SetMin(S) == CHOOSE m \in S : \A n \in S : m <= n

SetMax(S) == CHOOSE m \in S : \A n \in S : m >= n

\* str.strip(chars): the characters of cs removed from both ends.
StripChars(t, cs) ==
    LET keep == {k \in 1..Len(t) : t[k] \notin cs}
    IN  IF keep = {} THEN <<>> ELSE SubSeq(t, SetMin(keep), SetMax(keep))

\* str.strip()
strip(t) == StripChars(t, WhiteSpace)

\* Python's `kw in t` for strings.
Contains(t, kw) ==
    \E p \in 1..(Len(t) - Len(kw) + 1) : SubSeq(t, p, p + Len(kw) - 1) = kw

\* str.replace(c, ''): every occurrence of the character c removed.
RECURSIVE RemoveChar(_, _)
RemoveChar(t, c) ==
    IF t = <<>> THEN <<>>
    ELSE IF Head(t) = c THEN RemoveChar(Tail(t), c)
    ELSE <<Head(t)>> \o RemoveChar(Tail(t), c)

\* The index of the last character of the longest run of characters of S that
\* starts at p (p - 1 when t[p] is not in S or p is past the end).
RunEnd(t, p, S) ==
    LET bad == {k \in p..Len(t) : t[k] \notin S}
    IN  IF bad = {} THEN (IF p > Len(t) THEN p - 1 ELSE Len(t)) ELSE SetMin(bad) - 1

\* The end of the greedy match of \d+\.?\d* that starts at the digit t[p].
NumEnd(t, p) ==
    LET d1 == RunEnd(t, p, Digits)
    IN  IF d1 < Len(t) /\ t[d1 + 1] = "." THEN RunEnd(t, d1 + 2, Digits) ELSE d1

IsDigitAt(t, p) == p >= 1 /\ p <= Len(t) /\ t[p] \in Digits

NoMatch == [found |-> FALSE, g1 |-> <<>>, g2 |-> <<>>]


(***************************************************************************)
(* Optional values: None, or a str, or a float.                            *)
(* A float is kept as its exact decimal expansion: ip are the digits of    *)
(* the integer part without leading zeros, fp the digits of the fraction  *)
(* without trailing zeros.  For literals of at most 15 significant digits *)
(* this orders and prints exactly as the IEEE double does.                *)
(***************************************************************************)

NoneStr == [isstr |-> FALSE, s |-> <<>>]

SomeStr(t) == [isstr |-> TRUE, s |-> t]

NoneNum == [isnum |-> FALSE, ip |-> <<>>, fp |-> <<>>]

RECURSIVE StripLeadingZeros(_)
StripLeadingZeros(d) ==
    IF d # <<>> /\ Head(d) = "0" THEN StripLeadingZeros(Tail(d)) ELSE d

RECURSIVE StripTrailingZeros(_)
StripTrailingZeros(d) ==
    IF d # <<>> /\ d[Len(d)] = "0"
    THEN StripTrailingZeros(SubSeq(d, 1, Len(d) - 1))
    ELSE d

\* The literals float() is given here are regex groups: \d+\.?\d* parses, a
\* comparison sign raises ValueError (isnum = FALSE stands for the exception).
float(s) ==
    IF IsDigitAt(s, 1) /\ NumEnd(s, 1) = Len(s)
    THEN LET d1 == RunEnd(s, 1, Digits)
         IN  [isnum |-> TRUE,
              ip |-> StripLeadingZeros(SubSeq(s, 1, d1)),
              fp |-> StripTrailingZeros(SubSeq(s, d1 + 2, Len(s)))]
    ELSE NoneNum

PadRight(d, n) == d \o [k \in 1..(n - Len(d)) |-> "0"]

\* x < y for digit sequences of the same length.
LexLess(x, y) ==
    \E k \in 1..Len(x) :
        /\ DigitVal(x[k]) < DigitVal(y[k])
        /\ \A j \in 1..(k - 1) : x[j] = y[j]

\* a < b for two floats.
NumLess(a, b) ==
    IF Len(a.ip) # Len(b.ip) THEN Len(a.ip) < Len(b.ip)
    ELSE LET n == IF Len(a.fp) > Len(b.fp) THEN Len(a.fp) ELSE Len(b.fp)
         IN  LexLess(a.ip \o PadRight(a.fp, n), b.ip \o PadRight(b.fp, n))

RECURSIVE IntStr(_)
IntStr(n) ==
    IF n < 10 THEN <<DigitSeq[n + 1]>>
    ELSE IntStr(n \div 10) \o <<DigitSeq[(n % 10) + 1]>>

\* str(x) of a float x (repr): fixed notation when the decimal exponent is in
\* -4..15, otherwise d[.ddd]e[+-]XX.
str_float(x) ==
    LET sig  == StripLeadingZeros(x.ip \o x.fp)
        zs   == Len(x.fp) - Len(StripLeadingZeros(x.fp))
        e    == IF x.ip # <<>> THEN Len(x.ip) - 1 ELSE 0 - (zs + 1)
        mant == StripTrailingZeros(sig)
        ae   == IF e < 0 THEN 0 - e ELSE e
        es   == IF ae < 10 THEN <<"0">> \o IntStr(ae) ELSE IntStr(ae)
    IN  IF sig = <<>> THEN <<"0", ".", "0">>
        ELSE IF e >= -4 /\ e < 16
        THEN (IF x.ip = <<>> THEN <<"0">> ELSE x.ip) \o <<".">>
             \o (IF x.fp = <<>> THEN <<"0">> ELSE x.fp)
        ELSE <<Head(mant)>>
             \o (IF Len(mant) > 1 THEN <<".">> \o Tail(mant) ELSE <<>>)
             \o <<"e">> \o (IF e < 0 THEN <<"-">> ELSE <<"+">>) \o es

(***************************************************************************)
(* The compiled patterns and vocabularies of __init__                      *)
(***************************************************************************)

\* Where the digits start when ([<>]=?\s*)?(\d+\.?\d*) matches at p, else 0.
ValueStartAt(t, p) ==
    IF t[p] \in Digits THEN p
    ELSE IF t[p] \in {"<", ">"}
    THEN LET a == IF p < Len(t) /\ t[p + 1] = "=" THEN p + 2 ELSE p + 1
             b == RunEnd(t, a, WhiteSpace) + 1
         IN  IF IsDigitAt(t, b) THEN b ELSE 0
    ELSE 0

\* value_pattern.search(t): the leftmost match of ([<>]=?\s*)?(\d+\.?\d*).
value_pattern(t) ==
    LET ps == {p \in 1..Len(t) : ValueStartAt(t, p) # 0}
    IN  IF ps = {} THEN NoMatch
        ELSE LET p == SetMin(ps)
                 b == ValueStartAt(t, p)
             IN  [found |-> TRUE, g1 |-> SubSeq(t, p, b - 1),
                  g2 |-> SubSeq(t, b, NumEnd(t, b))]

common_text_results ==
    { <<"n", "i", "l">>,
      <<"n", "e", "g", "a", "t", "i", "v", "e">>,
      <<"p", "o", "s", "i", "t", "i", "v", "e">>,
      <<"t", "r", "a", "c", "e">>,
      <<"p", "r", "e", "s", "e", "n", "t">>,
      <<"a", "b", "s", "e", "n", "t">> }

Dashes == {"-", "endash"}

\* Where the second number starts when (\d+\.?\d*)\s*[-endash]\s*(\d+\.?\d*)
\* matches at p, else 0.
RangeSecondAt(t, p) ==
    IF t[p] \notin Digits THEN 0
    ELSE LET a == RunEnd(t, NumEnd(t, p) + 1, WhiteSpace) + 1
         IN  IF a <= Len(t) /\ t[a] \in Dashes
             THEN LET b == RunEnd(t, a + 1, WhiteSpace) + 1
                  IN  IF IsDigitAt(t, b) THEN b ELSE 0
             ELSE 0

\* range_pattern.search(t)
range_pattern(t) ==
    LET ps == {p \in 1..Len(t) : RangeSecondAt(t, p) # 0}
    IN  IF ps = {} THEN NoMatch
        ELSE LET p == SetMin(ps)
                 b == RangeSecondAt(t, p)
             IN  [found |-> TRUE, g1 |-> SubSeq(t, p, NumEnd(t, p)),
                  g2 |-> SubSeq(t, b, NumEnd(t, b))]

\* Where the number starts when ([<>])\s*(\d+\.?\d*) matches at p, else 0.
LimitStartAt(t, p) ==
    IF t[p] \in {"<", ">"}
    THEN LET b == RunEnd(t, p + 1, WhiteSpace) + 1
         IN  IF IsDigitAt(t, b) THEN b ELSE 0
    ELSE 0

\* limit_pattern.search(t)
limit_pattern(t) ==
    LET ps == {p \in 1..Len(t) : LimitStartAt(t, p) # 0}
    IN  IF ps = {} THEN NoMatch
        ELSE LET p == SetMin(ps)
                 b == LimitStartAt(t, p)
             IN  [found |-> TRUE, g1 |-> <<t[p]>>,
                  g2 |-> SubSeq(t, b, NumEnd(t, b))]

common_units ==
    { <<"%">>,
      <<"g", "/", "d", "l">>,
      <<"m", "g", "/", "d", "l">>,
      <<"u", "/", "l">>,
      <<"i", "u", "/", "l">>,
      <<"m", "m", "o", "l", "/", "l">>,
      <<"p", "g">>,
      <<"f", "l">>,
      <<"/", "c", "u", "m", "m">>,
      <<"/", "m", "m", "sup3">>,
      <<"x", "1", "0", "^", "3", "/", "mu", "l">>,
      <<"x", "1", "0", "^", "6", "/", "mu", "l">>,
      <<"m", "e", "q", "/", "l">>,
      <<"m", "m", "/", "h", "r">> }

noise_keywords ==
    { <<"t", "e", "s", "t">>, <<"r", "e", "s", "u", "l", "t">>,
      <<"u", "n", "i", "t">>, <<"r", "a", "n", "g", "e">>,
      <<"r", "e", "f", "e", "r", "e", "n", "c", "e">>,
      <<"n", "a", "m", "e">>, <<"p", "a", "t", "i", "e", "n", "t">>,
      <<"d", "o", "c", "t", "o", "r">>, <<"s", "a", "m", "p", "l", "e">>,
      <<"s", "p", "e", "c", "i", "m", "e", "n">>, <<"d", "a", "t", "e">>,
      <<"t", "i", "m", "e">>, <<"a", "g", "e">>, <<"s", "e", "x">>,
      <<"i", "d">>, <<"p", "h", "o", "n", "e">>, <<"p", "a", "g", "e">>,
      <<"h", "o", "s", "p", "i", "t", "a", "l">>,
      <<"l", "a", "b", "o", "r", "a", "t", "o", "r", "y">>,
      <<"d", "i", "a", "g", "n", "o", "s", "t", "i", "c", "s">>,
      <<"r", "e", "p", "o", "r", "t">>, <<"h", "e", "a", "d", "e", "r">>,
      <<"f", "o", "o", "t", "e", "r">>,
      <<"p", "r", "i", "n", "t", "e", "d">>,
      <<"s", "i", "g", "n", "a", "t", "u", "r", "e">>,
      <<"v", "e", "r", "i", "f", "i", "e", "d">> }

y_tolerance == 15

(***************************************************************************)
(* The predicates and parsers                                              *)
(***************************************************************************)

SplitChars == WhiteSpace \cup {"/", "(", ")"}

\* re.split(r'[\s/()]+', t)
RECURSIVE SplitWords(_)
SplitWords(t) ==
    LET seps == {k \in 1..Len(t) : t[k] \in SplitChars}
    IN  IF seps = {} THEN <<t>>
        ELSE LET p == SetMin(seps)
                 e == RunEnd(t, p, SplitChars)
             IN  <<SubSeq(t, 1, p - 1)>> \o SplitWords(SubSeq(t, e + 1, Len(t)))

UnitStripChars == {"[", "]", "{", "}", ",", ".", ":", ";"}

\* _find_unit: the first word whose cleaned, lowercased form is a known unit.
find_unit(text) ==
    LET words == SplitWords(text)
        hits  == {k \in 1..Len(words) :
                    \E known_unit \in common_units :
                        lower(StripChars(words[k], UnitStripChars)) = lower(known_unit)}
    IN  IF hits = {} THEN NoneStr ELSE SomeStr(words[SetMin(hits)])

BarePunctuation == { <<":">>, <<"-">>, <<"-", "-">>, <<".">>, <<",">> }

\* _is_plausible_value
is_plausible_value(text0) ==
    LET text == strip(text0)
        text_lower == lower(text)
    IN  IF text = <<>> \/ Len(text) > 30 THEN FALSE
        ELSE IF value_pattern(text).found THEN TRUE
        ELSE IF text_lower \in common_text_results THEN TRUE
        ELSE IF text \in BarePunctuation \/ find_unit(text) = SomeStr(text) THEN FALSE
        ELSE TRUE

\* _parse_numeric_value
parse_numeric_value(text) ==
    LET match == value_pattern(strip(RemoveChar(text, ",")))
    IN  IF match.found THEN float(match.g2) ELSE NoneNum

\* _looks_like_range
looks_like_range(text0) ==
    LET text == strip(text0)
    IN  IF text = <<>> \/ Len(text) > 50 THEN FALSE
        ELSE IF range_pattern(text).found THEN TRUE
        ELSE IF limit_pattern(text).found THEN TRUE
        ELSE IF /\ \E k \in 1..Len(text) : text[k] \in Dashes
                /\ \E k \in 1..Len(text) : text[k] \in Digits
        THEN TRUE
        ELSE FALSE

NoBounds == [low |-> NoneNum, high |-> NoneNum]

\* LimitBounds with the '>' branch returning the limit as the low bound.
LimitBounds_low_bound(limit_match) ==
    LET limit_val == float(limit_match.g2)
    IN  IF ~limit_val.isnum THEN NoBounds
        ELSE IF limit_match.g1 = <<"<">> THEN [low |-> NoneNum, high |-> limit_val]
        ELSE [low |-> limit_val, high |-> NoneNum]

\* The limit branch of _parse_range_bounds: '<' gives (None, limit_val); '>'
\* evaluates float(limit_match.group(1)), the float of the sign itself, whose
\* ValueError the bare except swallows.
LimitBounds(limit_match) ==
    LET limit_val == float(limit_match.g2)
    IN  IF ~limit_val.isnum THEN NoBounds
        ELSE IF limit_match.g1 = <<"<">> THEN [low |-> NoneNum, high |-> limit_val]
        ELSE IF limit_match.g1 = <<">">>
        THEN (IF float(limit_match.g1).isnum
              THEN [low |-> float(limit_match.g1), high |-> NoneNum]
              ELSE NoBounds)
        ELSE NoBounds

\* _parse_range_bounds
parse_range_bounds(text0) ==
    LET text == strip(text0)
        range_match == range_pattern(text)
        limit_match == limit_pattern(text)
    IN  IF /\ range_match.found
           /\ float(range_match.g1).isnum
           /\ float(range_match.g2).isnum
        THEN [low |-> float(range_match.g1), high |-> float(range_match.g2)]
        ELSE IF limit_match.found THEN LimitBounds(limit_match)
        ELSE NoBounds


(***************************************************************************)
(* Fragments, rows and records                                             *)
(*                                                                         *)
(* An item of the input list: isdict says whether it is a dict; bbox and   *)
(* text are each "absent" (no such key), "none" (the key holds None) or    *)
(* present (a list of numbers, a str).  id is the object's identity: its   *)
(* position in the input list.                                             *)
(***************************************************************************)

BBox(v) == [kind |-> "seq", v |-> v]

NoBBoxKey == [kind |-> "absent", v |-> <<>>]

NoneBBox == [kind |-> "none", v |-> <<>>]

Text(s) == [kind |-> "str", s |-> s]

NoTextKey == [kind |-> "absent", s |-> <<>>]

NoneText == [kind |-> "none", s |-> <<>>]

Item(isdict, bbox, text) == [isdict |-> isdict, id |-> 0, bbox |-> bbox, text |-> text]

\* The input list with each object given its identity.
WithIds(items) == [k \in 1..Len(items) |-> [items[k] EXCEPT !.id = k]]

\* item.get('text', ''): the default only replaces a missing key.
get_text(item) == IF item.text.kind = "str" THEN item.text.s ELSE <<>>

NoneBool == [isbool |-> FALSE, b |-> FALSE]

SomeBool(b) == [isbool |-> TRUE, b |-> b]

\* sorted(s, key=...): keys[k] is the key of s[k]; Python's sort is stable.
SortedBy(s, keys) ==
    LET rank(k) == Cardinality({j \in 1..Len(s) :
                        \/ keys[j] < keys[k]
                        \/ keys[j] = keys[k] /\ j < k}) + 1
    IN  [p \in 1..Len(s) |-> s[CHOOSE k \in 1..Len(s) : rank(k) = p]]

\* X0 reading the wrong coordinate of the box.
X0_y0(line) == line.bbox.v[2]

X0(line) == line.bbox.v[1]

Y0(line) == line.bbox.v[2]

\* Twice line_center_y = (bbox[1] + bbox[3]) / 2, to stay in the integers.
CenterY2(line) == line.bbox.v[2] + line.bbox.v[4]

Abs(n) == IF n < 0 THEN 0 - n ELSE n

\* WithinTolerance with the comparison made strict.
WithinTolerance_strict(c2, last2) == Abs(c2 - last2) < 2 * y_tolerance

\* abs(line_center_y - last_line_center_y) <= self.y_tolerance
WithinTolerance(c2, last2) == Abs(c2 - last2) <= 2 * y_tolerance

\* sorted(current_row, key=lambda item: item['bbox'][0])
SortedByX0(current_row) ==
    SortedBy(current_row, [k \in 1..Len(current_row) |-> X0(current_row[k])])

\* The list comprehension of _group_into_rows evaluates len(line['bbox']) for
\* every dict that has the key: None (or any value without a length) raises
\* TypeError.
group_into_rows_raises(text_lines) ==
    \E k \in 1..Len(text_lines) :
        text_lines[k].isdict /\ text_lines[k].bbox.kind = "none"

IsValidLine(line) ==
    line.isdict /\ line.bbox.kind = "seq" /\ Len(line.bbox.v) = 4

\* The sweep of _group_into_rows over the lines sorted by y0.
RECURSIVE Sweep(_, _, _, _)
Sweep(lines, rs, current_row, last_line_center_y2) ==
    IF lines = <<>>
    THEN (IF current_row # <<>> THEN Append(rs, SortedByX0(current_row)) ELSE rs)
    ELSE LET line == Head(lines)
             c2   == CenterY2(line)
         IN  IF current_row = <<>> \/ WithinTolerance(c2, last_line_center_y2)
             THEN Sweep(Tail(lines), rs, Append(current_row, line), c2)
             ELSE Sweep(Tail(lines), Append(rs, SortedByX0(current_row)),
                        <<line>>, c2)

\* _group_into_rows
group_into_rows(text_lines) ==
    LET valid_lines  == SelectSeq(text_lines, IsValidLine)
        sorted_lines == SortedBy(valid_lines, [k \in 1..Len(valid_lines) |-> Y0(valid_lines[k])])
    IN  Sweep(sorted_lines, <<>>, <<>>, 0)

AbbreviationWhitelist ==
    { <<"H", "B">>, <<"P", "C", "V">>, <<"T", "L", "C">>, <<"D", "L", "C">>,
      <<"R", "B", "C">>, <<"M", "C", "V">>, <<"M", "C", "H">>,
      <<"M", "C", "H", "C">>, <<"P", "L", "T">>, <<"E", "S", "R">> }

\* " ".join(item.get('text', '').lower() for item in row)
RECURSIVE JoinLower(_)
JoinLower(row) ==
    IF row = <<>> THEN <<>>
    ELSE IF Len(row) = 1 THEN lower(get_text(row[1]))
    ELSE lower(get_text(row[1])) \o <<" ">> \o JoinLower(Tail(row))

\* None.lower() raises AttributeError: the join touches every item's text.
is_noise_row_raises(row) == \E k \in 1..Len(row) : row[k].text.kind = "none"

\* str.isdigit()
isdigit(t) == t # <<>> /\ \A k \in 1..Len(t) : t[k] \in Digits

\* is_noise_row without the abbreviation whitelist.
is_noise_row_no_whitelist(row) ==
    LET row_text_lower == JoinLower(row)
        first_text     == strip(get_text(row[1]))
    IN  IF \E keyword \in noise_keywords : Contains(row_text_lower, keyword)
        THEN TRUE
        ELSE IF Len(first_text) < 2 /\ upper(first_text) \notin {<<"H", "B">>}
        THEN TRUE
        ELSE IF isdigit(first_text) \/ (first_text # <<>> /\ first_text[1] \in {":", "*", "."})
        THEN TRUE
        ELSE FALSE

\* _is_noise_row
is_noise_row(row) ==
    LET row_text_lower == JoinLower(row)
        first_col_text == upper(strip(get_text(row[1])))
        first_text     == strip(get_text(row[1]))
    IN  IF /\ \E keyword \in noise_keywords : Contains(row_text_lower, keyword)
           /\ \/ first_col_text \notin AbbreviationWhitelist
              \/ Len(row) < 2
              \/ ~is_plausible_value(get_text(row[2]))
        THEN TRUE
        ELSE IF Len(first_text) < 2 /\ upper(first_text) \notin {<<"H", "B">>}
        THEN TRUE
        ELSE IF isdigit(first_text) \/ (first_text # <<>> /\ first_text[1] \in {":", "*", "."})
        THEN TRUE
        ELSE FALSE

\* re.sub(r'[:*.-]$', '', t)
DropTrailingPunct(t) ==
    IF t # <<>> /\ t[Len(t)] \in {":", "*", ".", "-"}
    THEN SubSeq(t, 1, Len(t) - 1)
    ELSE t

\* test_name_text of _extract_test_from_row
TestNameText(row) == strip(DropTrailingPunct(upper(strip(get_text(row[1])))))

\* The early return of _extract_test_from_row on an unusable name.
NameRejected(row) ==
    LET test_name_text == TestNameText(row)
    IN  test_name_text = <<>>
        \/ (Len(test_name_text) < 2 /\ test_name_text # <<"H", "B">>)

\* The unit test of the scan: a unit token is found, and the text is short or
\* is the token itself.
IsUnitColumn(text) ==
    /\ find_unit(text).isstr
    /\ (Len(text) < 10 \/ lower(text) = lower(find_unit(text).s))

NoCols == [value |-> -1, unit |-> -1, range |-> -1]

\* ScanBody without the "not yet claimed" test on the value role.
ScanBody_last_value_wins(row, i, cols) ==
    LET text == strip(get_text(row[i + 1]))
    IN  IF text = <<>> THEN cols
        ELSE IF is_plausible_value(text)
        THEN [cols EXCEPT !.value = i]
        ELSE IF cols.unit = -1 /\ IsUnitColumn(text)
        THEN [cols EXCEPT !.unit = i]
        ELSE IF cols.range = -1 /\ looks_like_range(text)
        THEN [cols EXCEPT !.range = i]
        ELSE cols

\* One iteration of the scan loop of _extract_test_from_row for column i
\* (0-based, as in the source; -1 is "not claimed").
ScanBody(row, i, cols) ==
    LET text == strip(get_text(row[i + 1]))
    IN  IF text = <<>> THEN cols
        ELSE IF cols.value = -1 /\ is_plausible_value(text)
        THEN [cols EXCEPT !.value = i]
        ELSE IF cols.unit = -1 /\ IsUnitColumn(text)
        THEN [cols EXCEPT !.unit = i]
        ELSE IF cols.range = -1 /\ looks_like_range(text)
        THEN [cols EXCEPT !.range = i]
        ELSE cols

\* numeric_value < low, numeric_value > high and their combination.
IsOut(numeric_value, bounds) ==
    IF bounds.low.isnum /\ bounds.high.isnum
    THEN SomeBool(NumLess(numeric_value, bounds.low) \/ NumLess(bounds.high, numeric_value))
    ELSE IF bounds.low.isnum THEN SomeBool(NumLess(numeric_value, bounds.low))
    ELSE IF bounds.high.isnum THEN SomeBool(NumLess(bounds.high, numeric_value))
    ELSE NoneBool

\* result["test_value"]: str(num_val), or the raw text when no number parses.
TestValue(row, cols) ==
    IF cols.value = -1 THEN NoneStr
    ELSE LET value_text == get_text(row[cols.value + 1])
             num_val    == parse_numeric_value(value_text)
         IN  IF num_val.isnum THEN SomeStr(str_float(num_val))
             ELSE SomeStr(strip(value_text))

\* result["test_unit"]: the unit column's token, else a token inside the value.
TestUnit(row, cols) ==
    IF cols.unit # -1 THEN find_unit(get_text(row[cols.unit + 1]))
    ELSE IF cols.value # -1 THEN find_unit(get_text(row[cols.value + 1]))
    ELSE NoneStr

\* BioReferenceRange defaulting to the empty string.
BioReferenceRange_empty_default(row, cols) ==
    IF cols.range # -1 THEN SomeStr(strip(get_text(row[cols.range + 1]))) ELSE SomeStr(<<>>)

\* result["bio_reference_range"]
BioReferenceRange(row, cols) ==
    IF cols.range # -1 THEN SomeStr(strip(get_text(row[cols.range + 1]))) ELSE NoneStr

\* result["lab_test_out_of_range"]: the value is parsed back from the string
\* stored in result["test_value"].
OutOfRange(test_value, bio_reference_range) ==
    IF /\ test_value.isstr /\ test_value.s # <<>>
       /\ bio_reference_range.isstr /\ bio_reference_range.s # <<>>
    THEN LET numeric_value == parse_numeric_value(test_value.s)
         IN  IF numeric_value.isnum
             THEN IsOut(numeric_value, parse_range_bounds(bio_reference_range.s))
             ELSE NoneBool
    ELSE NoneBool

NoRecord == [some |-> FALSE]

\* The part of _extract_test_from_row after the scan: the record, or None.
BuildResult(row, cols) ==
    LET test_value == TestValue(row, cols)
        bio_reference_range == BioReferenceRange(row, cols)
    IN  IF ~test_value.isstr \/ test_value.s = <<>> THEN NoRecord
        ELSE [some |-> TRUE,
              test_name |-> TestNameText(row),
              test_value |-> test_value.s,
              bio_reference_range |-> bio_reference_range,
              test_unit |-> TestUnit(row, cols),
              lab_test_out_of_range |-> OutOfRange(test_value, bio_reference_range)]

\* The scan loop run from column i to the end.
RECURSIVE ScanFrom(_, _, _)
ScanFrom(row, i, cols) ==
    IF i >= Len(row) THEN cols ELSE ScanFrom(row, i + 1, ScanBody(row, i, cols))

\* _extract_test_from_row as a whole
extract_test_from_row(row) ==
    IF NameRejected(row) THEN NoRecord
    ELSE BuildResult(row, ScanFrom(row, 1, NoCols))


(***************************************************************************)
(* The texts the inputs are drawn from                                     *)
(***************************************************************************)

T_HB == <<"H", "B">>

T_8_0 == <<"8", ".", "0">>

T_g_dl == <<"g", "/", "d", "l">>

T_12_16 == <<"1", "2", "-", "1", "6">>

T_13_2 == <<"1", "3", ".", "2">>

T_13_2_pct == <<"1", "3", ".", "2", " ", "%">>

T_small == <<"0", ".", "0", "0", "0", "0", "1">>

T_Positive == <<"P", "o", "s", "i", "t", "i", "v", "e">>

T_pct == <<"%">>

T_lt_200 == <<"<", " ", "2", "0", "0">>

T_gt_100 == <<">", " ", "1", "0", "0">>

T_0_5_2 == <<"0", ".", "5", "-", "2">>

T_blank == <<" ">>

T_colon == <<":">>

T_A_colon == <<"A", ":">>

T_ESR_dot == <<"E", "S", "R", ".">>

T_PatientName == <<"P", "a", "t", "i", "e", "n", "t", " ", "N", "a", "m", "e">>

T_JohnDoe == <<"J", "o", "h", "n", " ", "D", "o", "e">>

T_PA == <<"P", "A">>

T_GE == <<"G", "E">>

T_55 == <<"5", "5">>

T_A == <<"A">>

T_colon_x == <<":", "x">>

T_range == <<"r", "a", "n", "g", "e">>

T_12_5 == <<"1", "2", ".", "5">>

T_lt_5 == <<"<", "5">>

T_gt_100_tight == <<">", "1", "0", "0">>

T_nil == <<"n", "i", "l">>

T_dashes == <<"-", "-">>

T_mg_dl == <<"m", "g", "/", "d", "l">>

T_4_11 == <<"4", ".", "0", "-", "1", "1", ".", "0">>

T_abc == <<"a", "b", "c">>

T_pg == <<"p", "g">>

\* All sequences over S of length lo..hi.
SeqsOver(S, lo, hi) == UNION {[1..n -> S] : n \in lo..hi}

(***************************************************************************)
(* State                                                                   *)
(***************************************************************************)

VARIABLES
    ocr_results,      \* the argument of process_ocr_results
    pc,               \* "start", "rows" (head of the row loop), "scan", "done"
    rows,             \* the rows built by _group_into_rows
    row_idx,          \* how many rows the row loop has consumed
    i,                \* the scan loop's column (0-based)
    cols,             \* potential_value_col / _unit_col / _range_col
    extracted_tests,  \* the records appended so far; the return value at "done"
    raised,           \* "none", or the exception that escaped
    fn_in,            \* the argument of a directly called predicate or parser
    fn_out            \* what the last direct call returned

vars == <<ocr_results, pc, rows, row_idx, i, cols, extracted_tests, raised,
          fn_in, fn_out>>

FnOff == [kind |-> "off", text |-> <<>>, row |-> <<>>]

FnNone == [fn |-> "none", b |-> FALSE, bounds |-> NoBounds, rec |-> NoRecord]

\* The state before process_ocr_results(input) runs.
Start(input) ==
    /\ ocr_results = input
    /\ pc = "start"
    /\ rows = <<>>
    /\ row_idx = 0
    /\ i = 0
    /\ cols = NoCols
    /\ extracted_tests = <<>>
    /\ raised = "none"
    /\ fn_in = FnOff
    /\ fn_out = FnNone

NotAList == [islist |-> FALSE, items |-> <<>>]

List(items) == [islist |-> TRUE, items |-> WithIds(items)]

(***************************************************************************)
(* process_ocr_results, one action per stage                               *)
(***************************************************************************)

\* Lines 27-31: the guard on the argument, then _group_into_rows.
Process ==
    /\ pc = "start"
    /\ IF ~ocr_results.islist \/ ocr_results.items = <<>>
       THEN /\ pc' = "done"
            /\ UNCHANGED <<rows, raised>>
       ELSE IF group_into_rows_raises(ocr_results.items)
       THEN /\ pc' = "done"
            /\ raised' = "TypeError"
            /\ UNCHANGED rows
       ELSE /\ pc' = "rows"
            /\ rows' = group_into_rows(ocr_results.items)
            /\ UNCHANGED raised
    /\ UNCHANGED <<ocr_results, row_idx, i, cols, extracted_tests, fn_in, fn_out>>

\* Lines 33-35 and 83-93: the next row is skipped (short, noise, unusable
\* name), or its scan starts; a None text makes _is_noise_row raise.
NextRow ==
    /\ pc = "rows"
    /\ row_idx < Len(rows)
    /\ LET row == rows[row_idx + 1]
       IN  IF Len(row) >= 2 /\ is_noise_row_raises(row)
           THEN /\ pc' = "done"
                /\ raised' = "AttributeError"
                /\ UNCHANGED <<row_idx, i, cols>>
           ELSE IF Len(row) < 2 \/ is_noise_row(row) \/ NameRejected(row)
           THEN /\ row_idx' = row_idx + 1
                /\ UNCHANGED <<pc, raised, i, cols>>
           ELSE /\ pc' = "scan"
                /\ i' = 1
                /\ cols' = NoCols
                /\ UNCHANGED <<row_idx, raised>>
    /\ UNCHANGED <<ocr_results, rows, extracted_tests, fn_in, fn_out>>

\* Lines 95-110: one iteration of the scan loop.
ScanStep ==
    /\ pc = "scan"
    /\ i < Len(rows[row_idx + 1])
    /\ cols' = ScanBody(rows[row_idx + 1], i, cols)
    /\ i' = i + 1
    /\ UNCHANGED <<ocr_results, pc, rows, row_idx, extracted_tests, raised,
                   fn_in, fn_out>>

\* Lines 112-138 and 37-38: the record is built and, if there is one, appended.
FinishRow ==
    /\ pc = "scan"
    /\ i = Len(rows[row_idx + 1])
    /\ LET test_data == BuildResult(rows[row_idx + 1], cols)
       IN  extracted_tests' = IF test_data.some
                              THEN Append(extracted_tests, test_data)
                              ELSE extracted_tests
    /\ row_idx' = row_idx + 1
    /\ pc' = "rows"
    /\ i' = 0
    /\ cols' = NoCols
    /\ UNCHANGED <<ocr_results, rows, raised, fn_in, fn_out>>

\* Line 41: return extracted_tests.
Return ==
    /\ pc = "rows"
    /\ row_idx = Len(rows)
    /\ pc' = "done"
    /\ UNCHANGED <<ocr_results, rows, row_idx, i, cols, extracted_tests, raised,
                   fn_in, fn_out>>

Next == Process \/ NextRow \/ ScanStep \/ FinishRow \/ Return

(***************************************************************************)
(* Inputs with malformed items: the default specification                  *)
(***************************************************************************)

MaxItems == 4

\* A well-formed fragment of the line at y 100..120.
Frag(text, x0) == Item(TRUE, BBox(<<x0, 100, x0 + 40, 120>>), Text(text))

HBRow == <<Frag(T_HB, 0), Frag(T_8_0, 50), Frag(T_g_dl, 100), Frag(T_12_16, 150)>>

MalformedItems ==
    { Item(FALSE, NoBBoxKey, NoTextKey),
      Item(TRUE, NoBBoxKey, Text(T_HB)),
      Item(TRUE, NoneBBox, Text(T_HB)),
      Item(TRUE, BBox(<<0, 100, 40>>), Text(T_HB)),
      Item(TRUE, BBox(<<200, 100, 240, 120>>), NoTextKey),
      Item(TRUE, BBox(<<250, 100, 290, 120>>), NoneText),
      Item(TRUE, BBox(<<300, 100, 340, 120>>), Text(<<>>)) }

ItemPool == {HBRow[k] : k \in 1..4} \cup MalformedItems

Init ==
    \E input \in {NotAList} \cup {List(s) : s \in SeqsOver(ItemPool, 0, MaxItems)} :
        Start(input)

Spec == Init /\ [][Next]_vars

(***************************************************************************)
(* Well-formed fragments of varying geometry                               *)
(***************************************************************************)

MaxFrags == 3

GeoX0 == {0, 10}

\* <<y0, height>> of the boxes: all heights differ, so a box's top and its
\* center order the fragments differently.
GeoBoxes == {<<0, 20>>, <<0, 80>>, <<10, 10>>, <<10, 20>>, <<30, 10>>, <<30, 20>>}

\* The fragment at (x0, y0) of the given height; the leftmost column holds names.
GeoFrag(x0, y0, h) ==
    Item(TRUE, BBox(<<x0, y0, x0 + 5, y0 + h>>),
         Text(IF x0 = 0 THEN T_HB ELSE T_8_0))

GeoPool == {GeoFrag(x0, b[1], b[2]) : x0 \in GeoX0, b \in GeoBoxes}

InitRows == \E s \in SeqsOver(GeoPool, 1, MaxFrags) : Start(List(s))

SpecRows == InitRows /\ [][Next]_vars

(***************************************************************************)
(* One line of fragments of varying text                                   *)
(***************************************************************************)

MaxCols == 4

NamePool == {T_HB, T_A_colon, T_ESR_dot}

ColPool == {T_8_0, T_13_2_pct, T_small, T_Positive, T_pct, T_12_16, T_0_5_2,
            T_blank, T_colon}

\* The line whose k-th fragment holds texts[k].
Line(texts) == [k \in 1..Len(texts) |-> Frag(texts[k], 50 * (k - 1))]

InitCols ==
    \E name \in NamePool :
        \E rest \in SeqsOver(ColPool, 1, MaxCols - 1) :
            Start(List(Line(<<name>> \o rest)))

SpecCols == InitCols /\ [][Next]_vars


(***************************************************************************)
(* The predicates and parsers called directly                              *)
(***************************************************************************)

MaxLen == 3

MaxRowLen == 3

FnAlphabet == {"1", "5", ".", "-", "<", ">", " ", "a", "%"}

FnTexts ==
    SeqsOver(FnAlphabet, 0, MaxLen)
    \cup {T_12_5, T_lt_5, T_gt_100_tight, T_nil, T_Positive, T_colon, T_dashes,
          T_mg_dl, T_g_dl, T_pg, T_4_11, T_lt_200, T_gt_100, T_abc, T_JohnDoe}

FnRowPool == {T_HB, T_13_2, T_PA, T_GE, T_A, T_55, T_colon_x, T_colon, T_range,
              T_gt_100}

FnRows ==
    {Line(texts) : texts \in SeqsOver(FnRowPool, 2, MaxRowLen)}
    \cup {Line(<<T_HB, T_13_2, T_g_dl, T_12_16>>), Line(<<T_PatientName, T_JohnDoe>>)}

\* The state before a direct call with the given argument.
StartFn(arg) ==
    /\ ocr_results = NotAList
    /\ pc = "done"
    /\ rows = <<>>
    /\ row_idx = 0
    /\ i = 0
    /\ cols = NoCols
    /\ extracted_tests = <<>>
    /\ raised = "none"
    /\ fn_in = arg
    /\ fn_out = FnNone

InitFn ==
    \/ \E t \in FnTexts : StartFn([kind |-> "text", text |-> t, row |-> <<>>])
    \/ \E r \in FnRows : StartFn([kind |-> "row", text |-> <<>>, row |-> r])

\* _is_plausible_value(fn_in.text)
CallIsPlausibleValue ==
    /\ fn_in.kind = "text"
    /\ fn_out' = [FnNone EXCEPT !.fn = "is_plausible_value",
                                !.b = is_plausible_value(fn_in.text)]
    /\ UNCHANGED <<ocr_results, pc, rows, row_idx, i, cols, extracted_tests,
                   raised, fn_in>>

\* _parse_range_bounds(fn_in.text)
CallParseRangeBounds ==
    /\ fn_in.kind = "text"
    /\ fn_out' = [FnNone EXCEPT !.fn = "parse_range_bounds",
                                !.bounds = parse_range_bounds(fn_in.text)]
    /\ UNCHANGED <<ocr_results, pc, rows, row_idx, i, cols, extracted_tests,
                   raised, fn_in>>

\* _is_noise_row(fn_in.row)
CallIsNoiseRow ==
    /\ fn_in.kind = "row"
    /\ fn_out' = [FnNone EXCEPT !.fn = "is_noise_row",
                                !.b = is_noise_row(fn_in.row)]
    /\ UNCHANGED <<ocr_results, pc, rows, row_idx, i, cols, extracted_tests,
                   raised, fn_in>>

\* _extract_test_from_row(fn_in.row)
CallExtractTestFromRow ==
    /\ fn_in.kind = "row"
    /\ fn_out' = [FnNone EXCEPT !.fn = "extract_test_from_row",
                                !.rec = extract_test_from_row(fn_in.row)]
    /\ UNCHANGED <<ocr_results, pc, rows, row_idx, i, cols, extracted_tests,
                   raised, fn_in>>

NextFn ==
    \/ CallIsPlausibleValue
    \/ CallParseRangeBounds
    \/ CallIsNoiseRow
    \/ CallExtractTestFromRow

SpecFn == InitFn /\ [][NextFn]_vars


(***************************************************************************)
(* Properties                                                              *)
(*                                                                         *)
(* The statements below describe the expected behaviour in their own       *)
(* terms (Stated...), so that they do not move with the definitions of     *)
(* the model they are checked against.                                     *)
(***************************************************************************)

\* The input items without their identities.
InputBag == {[ocr_results.items[k] EXCEPT !.id = 0] : k \in 1..Len(ocr_results.items)}

\* The input is exactly the four fragments of the line HB | 8.0 | g/dl | 12-16,
\* in any order.
IsHBRowInput ==
    /\ ocr_results.islist
    /\ Len(ocr_results.items) = 4
    /\ InputBag = {HBRow[k] : k \in 1..4}

HBRecord ==
    [some |-> TRUE,
     test_name |-> T_HB,
     test_value |-> T_8_0,
     bio_reference_range |-> SomeStr(T_12_16),
     test_unit |-> SomeStr(T_g_dl),
     lab_test_out_of_range |-> SomeBool(TRUE)]

\* C1: when process_ocr_results has run on the fragments of the line
\* HB | 8.0 | g/dl | 12-16 (one vertical center, ascending x0, any input order),
\* it has returned exactly the record HB, "8.0", "g/dl", "12-16", out of range.
C1_EndToEnd ==
    (pc = "done" /\ IsHBRowInput) =>
        (raised = "none" /\ extracted_tests = <<HBRecord>>)

\* _group_into_rows has returned.
Grouped == pc # "start" /\ raised = "none" /\ ocr_results.islist

StatedCenter2(f) == f.bbox.v[2] + f.bbox.v[4]

\* Twice the stated tolerance of 15.
StatedTolerance2 == 2 * 15

FragIds == 1..Len(ocr_results.items)

FragOf(id) == ocr_results.items[id]

RowOf(id) == CHOOSE r \in 1..Len(rows) : \E k \in 1..Len(rows[r]) : rows[r][k].id = id

StatedCenterGap2(a, b) ==
    IF StatedCenter2(FragOf(a)) >= StatedCenter2(FragOf(b))
    THEN StatedCenter2(FragOf(a)) - StatedCenter2(FragOf(b))
    ELSE StatedCenter2(FragOf(b)) - StatedCenter2(FragOf(a))

\* The original statement of C2: any two fragments are in one row exactly when
\* their vertical centers differ by at most 15.
C2_AnyPairWithinTolerance ==
    Grouped =>
        \A a, b \in FragIds :
            (RowOf(a) = RowOf(b)) <=> (StatedCenterGap2(a, b) <= StatedTolerance2)

\* a comes before b when the fragments are taken by ascending y0, fragments of
\* equal y0 in input order.
TopBefore(a, b) ==
    \/ FragOf(a).bbox.v[2] < FragOf(b).bbox.v[2]
    \/ FragOf(a).bbox.v[2] = FragOf(b).bbox.v[2] /\ a < b

TopConsecutive(a, b) ==
    TopBefore(a, b) /\ ~\E c \in FragIds : TopBefore(a, c) /\ TopBefore(c, b)

\* C2 (amended): every fragment is in exactly one row, and two fragments that
\* are consecutive in ascending y0 order are in the same row exactly when their
\* vertical centers differ by at most 15; a row is a run of that order.
C2_ConsecutiveWithinTolerance ==
    Grouped =>
        /\ \A a \in FragIds :
               Cardinality({<<r, k>> \in (1..Len(rows)) \X (1..Len(ocr_results.items)) :
                               k <= Len(rows[r]) /\ rows[r][k].id = a}) = 1
        /\ \A a, b \in FragIds :
               TopConsecutive(a, b) =>
                   ((RowOf(a) = RowOf(b)) <=> (StatedCenterGap2(a, b) <= StatedTolerance2))
        /\ \A a, b, c \in FragIds :
               (TopBefore(a, c) /\ TopBefore(c, b) /\ RowOf(a) = RowOf(b)) =>
                   RowOf(c) = RowOf(a)

\* C2 witness: a chain of three fragments shares a row although the centers of
\* its ends differ by more than 15.
C2_Witness ==
    /\ Grouped
    /\ \E a, b, c \in FragIds :
           /\ TopConsecutive(a, c) /\ TopConsecutive(c, b)
           /\ RowOf(a) = RowOf(b)
           /\ StatedCenterGap2(a, b) > StatedTolerance2

\* The original statement of C3: rows ascend by vertical center, and inside a
\* row the fragments ascend by x0.
C3_RowsByCenter ==
    Grouped =>
        /\ \A r1, r2 \in 1..Len(rows) :
               r1 < r2 =>
                   \A k1 \in 1..Len(rows[r1]), k2 \in 1..Len(rows[r2]) :
                       StatedCenter2(rows[r1][k1]) <= StatedCenter2(rows[r2][k2])
        /\ \A r \in 1..Len(rows) :
               \A k1, k2 \in 1..Len(rows[r]) :
                   k1 < k2 => rows[r][k1].bbox.v[1] <= rows[r][k2].bbox.v[1]

\* C3 (amended): rows ascend by top edge y0 (for rows i < j no fragment of row j
\* has a smaller y0 than a fragment of row i), and inside a row the fragments
\* ascend by x0.
C3_RowsByTop ==
    Grouped =>
        /\ \A r1, r2 \in 1..Len(rows) :
               r1 < r2 =>
                   \A k1 \in 1..Len(rows[r1]), k2 \in 1..Len(rows[r2]) :
                       rows[r1][k1].bbox.v[2] <= rows[r2][k2].bbox.v[2]
        /\ \A r \in 1..Len(rows) :
               \A k1, k2 \in 1..Len(rows[r]) :
                   k1 < k2 => rows[r][k1].bbox.v[1] <= rows[r][k2].bbox.v[1]

\* C3 witness: two rows, the second holding a fragment whose center is above
\* one of the first, and a row whose fragments came in descending x0.
C3_Witness ==
    /\ Grouped
    /\ \E r1, r2 \in 1..Len(rows) :
           /\ r1 < r2
           /\ \E k1 \in 1..Len(rows[r1]), k2 \in 1..Len(rows[r2]) :
                  StatedCenter2(rows[r2][k2]) < StatedCenter2(rows[r1][k1])
    /\ \E r \in 1..Len(rows) :
           \E k1, k2 \in 1..Len(rows[r]) :
               /\ k1 < k2
               /\ rows[r][k1].id > rows[r][k2].id
               /\ rows[r][k1].bbox.v[1] < rows[r][k2].bbox.v[1]

\* C4: no exception escapes process_ocr_results; an input that is not a list or
\* is empty returns no records; malformed items are skipped and the well-formed
\* fragments of the line HB | 8.0 | g/dl | 12-16 still give a record.
C4_NeverRaises ==
    /\ raised = "none"
    /\ (pc = "done" /\ (~ocr_results.islist \/ ocr_results.items = <<>>)) =>
           extracted_tests = <<>>
    /\ (pc = "done" /\ {HBRow[k] : k \in 1..4} \subseteq InputBag) =>
           \E k \in 1..Len(extracted_tests) : extracted_tests[k].test_name = T_HB


\* The row being scanned.
ScanRow == rows[row_idx + 1]

\* The flag the out-of-range rule gives for a value and a pair of bounds.
StatedFlagOk(flag, value, bounds) ==
    /\ flag.isbool => (value.isnum /\ (bounds.low.isnum \/ bounds.high.isnum))
    /\ (flag.isbool /\ bounds.low.isnum /\ bounds.high.isnum) =>
           (flag.b <=> (NumLess(value, bounds.low) \/ NumLess(bounds.high, value)))
    /\ (flag.isbool /\ bounds.low.isnum /\ ~bounds.high.isnum) =>
           (flag.b <=> NumLess(value, bounds.low))
    /\ (flag.isbool /\ ~bounds.low.isnum /\ bounds.high.isnum) =>
           (flag.b <=> NumLess(bounds.high, value))
    /\ (~value.isnum \/ (~bounds.low.isnum /\ ~bounds.high.isnum)) => ~flag.isbool

\* C5: for every record _extract_test_from_row emits, with value the number
\* parsed from the value fragment and (low, high) the bounds parsed from the
\* range: the flag is present only if the value is a number and a bound exists,
\* it then tells whether value < low or value > high, and it is absent (never
\* false) when the value is not a number or no bound exists.
C5_OutOfRange ==
    [][(pc = "scan" /\ pc' = "rows" /\ Len(extracted_tests') > Len(extracted_tests)) =>
          LET rec    == extracted_tests'[Len(extracted_tests')]
              value  == parse_numeric_value(get_text(ScanRow[cols.value + 1]))
              bounds == IF rec.bio_reference_range.isstr
                        THEN parse_range_bounds(rec.bio_reference_range.s)
                        ELSE NoBounds
          IN  StatedFlagOk(rec.lab_test_out_of_range, value, bounds)]_vars

StatedShape(recs) ==
    \A k \in 1..Len(recs) :
        /\ recs[k].test_name # <<>>
        /\ recs[k].test_value # <<>>
        /\ recs[k].test_unit.isstr => recs[k].test_unit.s # <<>>
        /\ recs[k].bio_reference_range.isstr => recs[k].bio_reference_range.s # <<>>

\* C6: every record of the output has a non-empty test_name and test_value, its
\* test_unit and bio_reference_range are each None or a non-empty string, and a
\* row whose scan claimed no value fragment appends no record.
C6_RecordShape ==
    [][/\ StatedShape(extracted_tests')
       /\ (pc = "scan" /\ pc' = "rows" /\ cols.value = -1) =>
              extracted_tests' = extracted_tests]_vars

\* C6 witness: a record was returned whose unit and range are both None.
C6_Witness ==
    /\ pc = "done"
    /\ Len(extracted_tests) = 1
    /\ ~extracted_tests[1].test_unit.isstr
    /\ ~extracted_tests[1].bio_reference_range.isstr

StatedHasDigit(t) == \E k \in 1..Len(t) : t[k] \in Digits

StatedQualitative ==
    {T_nil, <<"n", "e", "g", "a", "t", "i", "v", "e">>,
     <<"p", "o", "s", "i", "t", "i", "v", "e">>, <<"t", "r", "a", "c", "e">>,
     <<"p", "r", "e", "s", "e", "n", "t">>, <<"a", "b", "s", "e", "n", "t">>}

\* C7: _is_plausible_value accepts "12.5", "<5", ">100", "nil" and "Positive",
\* rejects ":", "--" and every text that is a known unit token without a digit
\* (such as "mg/dl"), and accepts a text only if it holds a number or is, in
\* lower case, one of the qualitative results.
C7_ValuePredicate ==
    fn_out.fn = "is_plausible_value" =>
        /\ fn_in.text \in {T_12_5, T_lt_5, T_gt_100_tight, T_nil, T_Positive} => fn_out.b
        /\ fn_in.text \in {T_colon, T_dashes} => ~fn_out.b
        /\ (lower(fn_in.text) \in common_units /\ ~StatedHasDigit(fn_in.text)) => ~fn_out.b
        /\ fn_out.b => (StatedHasDigit(fn_in.text) \/ lower(fn_in.text) \in StatedQualitative)

\* The texts of a row joined by sep, in lower case.
RECURSIVE StatedJoin(_, _)
StatedJoin(row, sep) ==
    IF row = <<>> THEN <<>>
    ELSE IF Len(row) = 1 THEN lower(get_text(row[1]))
    ELSE lower(get_text(row[1])) \o sep \o StatedJoin(Tail(row), sep)

StatedWhitelist ==
    { <<"H", "B">>, <<"P", "C", "V">>, <<"T", "L", "C">>, <<"D", "L", "C">>,
      <<"R", "B", "C">>, <<"M", "C", "V">>, <<"M", "C", "H">>,
      <<"M", "C", "H", "C">>, <<"P", "L", "T">>, <<"E", "S", "R">> }

StatedHasKeyword(t) == \E kw \in noise_keywords : Contains(t, kw)

StatedExempt(row) ==
    /\ upper(strip(get_text(row[1]))) \in StatedWhitelist
    /\ is_plausible_value(get_text(row[2]))

\* The three rules of the noise decision, the row's texts joined by sep.
StatedNoise(row, sep) ==
    LET first == strip(get_text(row[1]))
    IN  \/ StatedHasKeyword(StatedJoin(row, sep)) /\ ~StatedExempt(row)
        \/ Len(first) < 2
        \/ (first # <<>> /\ \A k \in 1..Len(first) : first[k] \in Digits)
        \/ (first # <<>> /\ first[1] \in {":", "*", "."})

\* The original statement of C8: the keyword is looked for in the plain
\* concatenation of the row's texts.
C8_NoisePlainConcatenation ==
    (fn_out.fn = "is_noise_row" /\ Len(fn_in.row) >= 2) =>
        (fn_out.b <=> StatedNoise(fn_in.row, <<>>))

\* C8 (amended): for a row of at least 2 fragments _is_noise_row is true exactly
\* when (1) the lower-case texts of the row, joined by single spaces, contain a
\* noise keyword and it is not the case that the first text is a whitelisted
\* abbreviation with a plausible value second, or (2) the first text has fewer
\* than 2 characters, or (3) it is all digits or begins with ':', '*' or '.';
\* ["Patient Name", "John Doe"] is noise, ["HB", "13.2", "g/dl", "12-16"] is not.
C8_NoiseRule ==
    (fn_out.fn = "is_noise_row" /\ Len(fn_in.row) >= 2) =>
        /\ fn_out.b <=> StatedNoise(fn_in.row, <<" ">>)
        /\ fn_in.row = Line(<<T_PatientName, T_JohnDoe>>) => fn_out.b
        /\ fn_in.row = Line(<<T_HB, T_13_2, T_g_dl, T_12_16>>) => ~fn_out.b

\* C8 witness: a row with a keyword is kept because it starts with a
\* whitelisted abbreviation followed by a plausible value.
C8_Witness ==
    /\ fn_out.fn = "is_noise_row"
    /\ StatedHasKeyword(StatedJoin(fn_in.row, <<" ">>))
    /\ StatedExempt(fn_in.row)
    /\ ~fn_out.b

StatedText(row, j) == strip(get_text(row[j + 1]))

Lowest(S) == IF S = {} THEN -1 ELSE SetMin(S)

\* After columns 1..i-1 of the row each role is held by the lowest non-empty
\* column that satisfies its predicate and is not held by a role of higher
\* priority.
StatedScan(row, upto, c) ==
    LET scanned == 1..(upto - 1)
        V == {j \in scanned : StatedText(row, j) # <<>>
                              /\ is_plausible_value(StatedText(row, j))}
        U == {j \in scanned : StatedText(row, j) # <<>>
                              /\ IsUnitColumn(StatedText(row, j))
                              /\ j # c.value}
        R == {j \in scanned : StatedText(row, j) # <<>>
                              /\ looks_like_range(StatedText(row, j))
                              /\ j \notin {c.value, c.unit}}
    IN  /\ c.value = Lowest(V)
        /\ c.unit = Lowest(U)
        /\ c.range = Lowest(R)
        /\ 0 \notin {c.value, c.unit, c.range}
        /\ c.value # -1 => c.value \notin {c.unit, c.range}
        /\ c.unit # -1 => c.unit # c.range

\* C9: during the single left-to-right scan of columns 1..N-1 each role is held
\* by at most one column, no column holds two roles, column 0 holds none, each
\* role is held by the lowest non-empty column satisfying its predicate that a
\* role of higher priority (value, unit, range) did not claim, and a claimed
\* role is never reassigned by a later column.
C9_FirstMatchWins ==
    [][/\ pc' = "scan" => StatedScan(rows'[row_idx' + 1], i', cols')
       /\ (pc = "scan" /\ pc' = "scan") =>
              /\ cols.value # -1 => cols'.value = cols.value
              /\ cols.unit # -1 => cols'.unit = cols.unit
              /\ cols.range # -1 => cols'.range = cols.range]_vars

\* C9 witness: the scan is over, the three roles are claimed, and a column after
\* the value column also satisfied the value predicate.
C9_Witness ==
    /\ pc = "scan"
    /\ i = Len(ScanRow)
    /\ cols.value # -1 /\ cols.unit # -1 /\ cols.range # -1
    /\ \E j \in (cols.value + 1)..(Len(ScanRow) - 1) :
           StatedText(ScanRow, j) # <<>> /\ is_plausible_value(StatedText(ScanRow, j))

StatedNum(ip, fp) == [isnum |-> TRUE, ip |-> ip, fp |-> fp]

\* The text has no low-high pattern and its first limit has the given sign.
OnlyLimit(t, sign) ==
    /\ ~range_pattern(strip(t)).found
    /\ limit_pattern(strip(t)).found
    /\ limit_pattern(strip(t)).g1 = <<sign>>

====
